---- MODULE Spec2Model ----
(***************************************************************************)
(* A model of main.py: the aiogram message handlers (one asyncio task per  *)
(* update, all on one event loop, blocking helpers on executor threads),   *)
(* the note file, the uploads directory, and the Flask endpoints.          *)
(*                                                                         *)
(* Text is a sequence of one-character strings, so that strip, startswith, *)
(* split and slicing are computed as Python computes them.  Fixed reply    *)
(* texts are kept as one string each (non-ASCII symbols left out).         *)
(***************************************************************************)
EXTENDS Integers, Sequences, FiniteSets, TLC

\* ------------------------------------------------------------------ bounds
MaxUpd == 1      \* updates of any kind handled in one run (Spec)
MaxJobs == 2     \* updates with an external call handled in one run (SpecWorkers)
MaxNoteUpd == 2  \* /notes updates handled in one run (SpecNotes)
MaxTime == 1     \* int(time.time()) takes the values 0..MaxTime
MaxReq == 2      \* POST /upload requests in one run
MaxLen == 4      \* length of the free part of a /webchat text

\* ------------------------------------------------------------ Python text
SP == " "

RECURSIVE LStrip(_)
LStrip(s) == IF s = <<>> THEN s
             ELSE IF Head(s) = SP THEN LStrip(Tail(s)) ELSE s

RECURSIVE RStrip(_)
RStrip(s) == IF s = <<>> THEN s
             ELSE IF s[Len(s)] = SP THEN RStrip(SubSeq(s, 1, Len(s) - 1)) ELSE s

\* str.strip()
Strip(s) == RStrip(LStrip(s))

\* str.startswith(p)
StartsWith(s, p) == Len(s) >= Len(p) /\ SubSeq(s, 1, Len(p)) = p

\* s[n:]
Drop(s, n) == SubSeq(s, n + 1, Len(s))

\* index of the first blank of s, 0 when there is none
FirstSpace(s) == IF \E i \in 1..Len(s) : s[i] = SP
                 THEN CHOOSE i \in 1..Len(s) :
                        s[i] = SP /\ \A j \in 1..(i - 1) : s[j] # SP
                 ELSE 0

\* str.split(maxsplit=1): the list of at most two parts
SplitOnce(s) ==
    LET t == LStrip(s)
        i == FirstSpace(t)
    IN  IF t = <<>> THEN <<>>
        ELSE IF i = 0 THEN <<t>>
        ELSE LET rest == LStrip(Drop(t, i))
             IN  IF rest = <<>> THEN <<SubSeq(t, 1, i - 1)>>
                 ELSE <<SubSeq(t, 1, i - 1), rest>>

\* str.rstrip("/")
RECURSIVE RStripSlash(_)
RStripSlash(s) == IF s = <<>> THEN s
                  ELSE IF s[Len(s)] = "/" THEN RStripSlash(SubSeq(s, 1, Len(s) - 1))
                  ELSE s

\* urllib.parse.quote_plus on the characters the model uses
QuoteChar(c) == CASE c = SP  -> <<"+">>
                  [] c = "/" -> <<"%", "2", "F">>
                  [] c = ":" -> <<"%", "3", "A">>
                  [] OTHER   -> <<c>>

RECURSIVE quote_plus(_)
quote_plus(s) == IF s = <<>> THEN <<>> ELSE QuoteChar(Head(s)) \o quote_plus(Tail(s))

\* str.replace(" ", "_")
RECURSIVE ReplaceSpace(_)
ReplaceSpace(s) == IF s = <<>> THEN <<>>
                   ELSE <<IF Head(s) = SP THEN "_" ELSE Head(s)>> \o ReplaceSpace(Tail(s))

Range(s) == {s[i] : i \in 1..Len(s)}

IsPrefix(p, s) == Len(p) <= Len(s) /\ SubSeq(s, 1, Len(p)) = p

\* ------------------------------------------------------------- vocabulary
W_img   == <<"i", "m", "g", ":">>
W_save  == <<"s", "a", "v", "e", " ">>
W_show  == <<"s", "h", "o", "w">>
W_clear == <<"c", "l", "e", "a", "r">>

CommandNames == {"start", "ai", "wiki", "weather", "image", "meme", "speak",
                 "joke", "notes", "pdf"}

CmdWord(c) == CASE c = "start"   -> <<"/", "s", "t", "a", "r", "t">>
                [] c = "ai"      -> <<"/", "a", "i">>
                [] c = "wiki"    -> <<"/", "w", "i", "k", "i">>
                [] c = "weather" -> <<"/", "w", "e", "a", "t", "h", "e", "r">>
                [] c = "image"   -> <<"/", "i", "m", "a", "g", "e">>
                [] c = "meme"    -> <<"/", "m", "e", "m", "e">>
                [] c = "speak"   -> <<"/", "s", "p", "e", "a", "k">>
                [] c = "joke"    -> <<"/", "j", "o", "k", "e">>
                [] c = "notes"   -> <<"/", "n", "o", "t", "e", "s">>
                [] c = "pdf"     -> <<"/", "p", "d", "f">>

\* ------------------------------------------------------------------ routing
\* The handler the dispatcher picks: the command handlers in registration
\* order, then the photo handler, then the catch-all text handler.
Route(content, text) ==
    IF content = "photo" THEN "photo"
    ELSE LET parts == SplitOnce(text)
         IN  IF parts # <<>> /\ \E c \in CommandNames : parts[1] = CmdWord(c)
             THEN CHOOSE c \in CommandNames : parts[1] = CmdWord(c)
             ELSE "text"

\* message.get_args(): what follows the command word
get_args(text) == LET parts == SplitOnce(text)
                  IN  IF Len(parts) > 1 THEN parts[2] ELSE <<>>

\* ------------------------------------------------------- capability clients
F_files == <<"/", "f", "i", "l", "e", "s", "/">>

\* make_public_file_url(filename, host_url), RAILWAY_BASE_URL being `base`
make_public_file_url(filename, host_url, base) ==
    LET b == IF base # <<>> THEN RStripSlash(base)
             ELSE IF host_url # <<>> THEN RStripSlash(host_url) ELSE <<>>
    IN  IF b = <<>> THEN F_files \o filename
        ELSE b \o F_files \o quote_plus(filename)

generate_image_url(prompt) ==
    <<"https://image.pollinations.ai/prompt/">> \o quote_plus(prompt)

generate_meme_url(text) ==
    <<"https://api.memegen.link/images/custom/_/">> \o ReplaceSpace(text)
      \o <<".png?background=https://i.imgur.com/8KcYpGf.png">>

\* call_openrouter_ai_sync: the first choice's content, or the error text.
\* The completion is whatever the service answers to the prompt; the same
\* prompt is taken to get the same completion.
call_openrouter_ai_sync(prompt, ok) ==
    IF ok THEN <<"completion:">> \o prompt ELSE <<"AI error">>

\* ---------------------------------------------------- text classification
NoPlan == [class |-> "none", capability |-> "none", notice |-> <<>>,
           prompt |-> <<>>, body |-> <<>>]

\* The image-question prompt of handle_text
TgImagePrompt(question, image_url) ==
    <<"User question about image: ">> \o question \o <<"\nImage URL: ">>
      \o image_url
      \o <<"\nPlease describe and answer the question based on the image.">>

\* The image-question prompt of webchat
WebImagePrompt(question, image_url) ==
    <<"User asks about image: ">> \o question \o <<"\nImage URL: ">>
      \o image_url \o <<"\nDescribe and answer based on image.">>

\* handle_text up to its capability call: the branch taken, the interim
\* notice, the prompt, and the reply of a branch that makes no call.
handle_text_plan(raw, base) ==
    LET text == Strip(raw)
    IN  IF StartsWith(text, <<"/">>)
        THEN [NoPlan EXCEPT !.class = "slash"]
        ELSE IF StartsWith(text, W_img)
        THEN LET parts    == SplitOnce(text)
                 fname    == Drop(parts[1], 4)
                 question == IF Len(parts) > 1 THEN parts[2] ELSE <<>>
                 url      == IF base # <<>>
                             THEN make_public_file_url(fname, base, base)
                             ELSE F_files \o fname
             IN  IF question = <<>>
                 THEN [NoPlan EXCEPT !.class = "img_noq",
                         !.body = <<"Please add your question after image filename.">>]
                 ELSE [NoPlan EXCEPT !.class = "img_q", !.capability = "ai",
                         !.notice = <<"Analyzing the image and answering...">>,
                         !.prompt = TgImagePrompt(question, url)]
        ELSE [NoPlan EXCEPT !.class = "plain", !.capability = "ai",
                !.notice = <<"Thinking...">>, !.prompt = text]

\* data.get("text", "").strip()
web_text_unstripped(raw) == raw
web_text(raw) == Strip(raw)

\* webchat up to its capability call
webchat_plan(raw, base, host_url) ==
    LET text == web_text(raw)
    IN  IF text = <<>>
        THEN [NoPlan EXCEPT !.class = "empty", !.body = <<"Send some text.">>]
        ELSE IF StartsWith(text, W_img)
        THEN LET parts    == SplitOnce(text)
                 fname    == Drop(parts[1], 4)
                 question == IF Len(parts) > 1 THEN parts[2] ELSE <<>>
                 url      == make_public_file_url(fname, RStripSlash(host_url), base)
             IN  IF question = <<>>
                 THEN [NoPlan EXCEPT !.class = "img_noq",
                         !.body = <<"Please include question after image filename.">>]
                 ELSE [NoPlan EXCEPT !.class = "img_q", !.capability = "ai",
                         !.prompt = WebImagePrompt(question, url)]
        ELSE [NoPlan EXCEPT !.class = "plain", !.capability = "ai", !.prompt = text]

\* The chat-platform router on a text update: a command handler when the
\* text opens with a registered command word, else handle_text.
router_plan(raw, base) ==
    LET h == Route("text", raw)
    IN  IF h = "text" THEN handle_text_plan(raw, base)
        ELSE IF h = "ai" /\ get_args(raw) # <<>>
        THEN [NoPlan EXCEPT !.class = "command", !.capability = "ai",
                !.notice = <<"Thinking...">>, !.prompt = get_args(raw)]
        ELSE [NoPlan EXCEPT !.class = "command", !.capability = h]

\* The reply a plan ends in, the chat completion having succeeded or not
plan_reply(plan, ok) ==
    IF plan.capability = "ai" THEN call_openrouter_ai_sync(plan.prompt, ok)
    ELSE plan.body

\* -------------------------------------------------------------------- state
VARIABLES
    railway,      \* RAILWAY_BASE_URL ("" when unset)
    weatherKey,   \* OPENWEATHER_API_KEY is set
    now,          \* int(time.time())
    files,        \* the files under data/ and data/uploads/: path -> content
    notesFile,    \* data/notes.json: parsable or not, and the map it holds
    nUpd,         \* updates dispatched so far
    msg,          \* update -> the inbound message
    pc,           \* update -> where its handler stands
    out,          \* update -> the replies its handler has sent, in order
    stat,         \* update -> capability calls, note-file reads and writes
    wrote,        \* update -> the paths its handler has written
    loc,          \* update -> the handler's locals (prompt, result, path)
    loop,         \* the update whose handler holds the event loop in a blocking call, or 0
    expect,       \* user -> the texts saved with success since the user's last clear
    everSaved,    \* user -> every text the user has asked to save
    ioFault,      \* a note-file read or write has failed
    shows,        \* update -> for a /notes show, `expect` of its user when it ran
    req,          \* upload request -> its state
    chatText,     \* the text given to both front ends
    tgOut,        \* what the chat-platform router makes of chatText
    webOut        \* what POST /webchat makes of chatText

cfgVars  == <<railway, weatherKey>>
botVars  == <<now, files, notesFile, nUpd, msg, pc, out, stat, wrote, loc, loop,
              expect, everSaved, ioFault, shows>>
webVars  == <<req>>
chatVars == <<chatText, tgOut, webOut>>
vars     == <<cfgVars, botVars, webVars, chatVars>>

Max2(a, b) == IF a >= b THEN a ELSE b
Upds  == 1..Max2(MaxUpd, Max2(MaxJobs, MaxNoteUpd))
Users == {1, 2}
Reqs  == 1..MaxReq

Bases == {<<>>, <<"B", "/">>}

T_a == <<"a">>
T_b == <<"b">>

ArgCommands == {"ai", "wiki", "weather", "image", "meme", "speak", "pdf"}

\* The inbound messages of the model
NotesArgs == {<<>>, W_save \o T_a, W_save \o T_b, W_show, W_clear,
              <<"s", "a", "v", "e">>}

BotMessages ==
    {[content |-> "text", text |-> CmdWord(c), user |-> 1] : c \in CommandNames \ {"notes"}}
    \cup {[content |-> "text", text |-> CmdWord(c) \o <<SP>> \o T_a, user |-> 1] :
            c \in ArgCommands}
    \cup {[content |-> "text", text |-> CmdWord(c) \o <<SP>> \o T_b, user |-> 1] :
            c \in {"speak", "pdf"}}
    \cup {[content |-> "text",
           text |-> IF a = <<>> THEN CmdWord("notes") ELSE CmdWord("notes") \o <<SP>> \o a,
           user |-> w] : a \in NotesArgs, w \in Users}
    \cup {[content |-> "text", text |-> t, user |-> 1] :
            t \in {T_a, <<"/", "x">>, W_img \o <<"f">>, W_img \o <<"f", SP, "q">>}}
    \cup {[content |-> "photo", text |-> <<>>, user |-> 1]}

NoMessage == [content |-> "none", text |-> <<>>, user |-> 0]
NoLocals  == [prompt |-> <<>>, res |-> <<>>, path |-> <<>>]
NoStat    == [calls |-> 0, reads |-> 0, writes |-> 0]
EmptyNotes == [w \in Users |-> <<>>]

\* ---------------------------------------------------------------- helpers
Handler(u) == Route(msg[u].content, msg[u].text)
Args(u)    == get_args(msg[u].text)

TextReply(body)  == [kind |-> "text", body |-> body, items |-> <<>>, final |-> TRUE]
Notice(body)     == [kind |-> "text", body |-> body, items |-> <<>>, final |-> FALSE]
MediaReply(k, b) == [kind |-> k, body |-> b, items |-> <<>>, final |-> TRUE]

Usage(c) == CASE c = "ai"      -> <<"Usage: /ai <your question>">>
              [] c = "wiki"    -> <<"Usage: /wiki <topic>">>
              [] c = "weather" -> <<"Usage: /weather <city>">>
              [] c = "image"   -> <<"Usage: /image <prompt>">>
              [] c = "meme"    -> <<"Usage: /meme <text>">>
              [] c = "speak"   -> <<"Usage: /speak <text>">>
              [] c = "pdf"     -> <<"Usage: /pdf <text to convert to pdf>">>
              [] c = "notes"   -> <<"Usage: /notes save <text> | /notes show | /notes clear">>

\* `if not query:` of the command handlers
MissingArgAlwaysFalse(arg) == FALSE
MissingArg(arg) == arg = <<>>

\* The handler of u sends `r` and is left at `next`
Send(u, r, next) ==
    /\ out' = [out EXCEPT ![u] = Append(@, r)]
    /\ pc'  = [pc EXCEPT ![u] = next]

Called(u) == stat' = [stat EXCEPT ![u].calls = @ + 1]

WriteFile(path, content) ==
    [q \in DOMAIN files \cup {path} |-> IF q = path THEN content ELSE files[q]]

RemoveFile(path) == [q \in DOMAIN files \ {path} |-> files[q]]

\* A handler step taken by the event loop: no handler is inside a
\* blocking call on the loop's thread.
OnLoop(u, at) == loop = 0 /\ pc[u] = at

otherVars == <<cfgVars, webVars, chatVars>>

\* ---------------------------------------------------------- the dispatcher
\* The polling task hands the next update to a new handler task; `bound`
\* updates arrive in the run.
Dispatch(m, bound) ==
    /\ loop = 0
    /\ nUpd < bound
    /\ nUpd' = nUpd + 1
    /\ msg' = [msg EXCEPT ![nUpd + 1] = m]
    /\ pc'  = [pc EXCEPT ![nUpd + 1] = "start"]
    /\ UNCHANGED <<now, files, notesFile, out, stat, wrote, loc, loop,
                   expect, everSaved, ioFault, shows, otherVars>>

\* time passes
Tick ==
    /\ now < MaxTime
    /\ now' = now + 1
    /\ UNCHANGED <<files, notesFile, nUpd, msg, pc, out, stat, wrote, loc, loop,
                   expect, everSaved, ioFault, shows, otherVars>>

\* The awaited last reply is through and the handler returns.
Finish(u) ==
    /\ OnLoop(u, "reply_wait")
    /\ pc' = [pc EXCEPT ![u] = "done"]
    /\ UNCHANGED <<now, files, notesFile, nUpd, msg, out, stat, wrote, loc, loop,
                   expect, everSaved, ioFault, shows, otherVars>>

\* ------------------------------------------------------- /start and /joke
cmd_start(u) ==
    /\ OnLoop(u, "start") /\ Handler(u) = "start"
    /\ Send(u, TextReply(<<"Hello! I'm Aditya Singh's All-in-One AI Bot.">>), "reply_wait")
    /\ UNCHANGED <<now, files, notesFile, nUpd, msg, stat, wrote, loc, loop,
                   expect, everSaved, ioFault, shows, otherVars>>

Jokes == {<<"Why did the programmer quit his job? Because he didn't get arrays.">>,
          <<"I told my computer I needed a break, and it said 'No problem'.">>}

cmd_joke(u) ==
    /\ OnLoop(u, "start") /\ Handler(u) = "joke"
    /\ \E j \in Jokes : Send(u, TextReply(j), "reply_wait")
    /\ UNCHANGED <<now, files, notesFile, nUpd, msg, stat, wrote, loc, loop,
                   expect, everSaved, ioFault, shows, otherVars>>

\* ------------------------------------------- /ai, plain text, img: question
cmd_ai(u) ==
    /\ OnLoop(u, "start") /\ Handler(u) = "ai"
    /\ IF MissingArg(Args(u))
       THEN /\ Send(u, TextReply(Usage("ai")), "reply_wait")
            /\ loc' = loc
       ELSE /\ Send(u, Notice(<<"Thinking...">>), "notice_wait")
            /\ loc' = [loc EXCEPT ![u].prompt = Args(u)]
    /\ UNCHANGED <<now, files, notesFile, nUpd, msg, stat, wrote, loop,
                   expect, everSaved, ioFault, shows, otherVars>>

handle_text(u) ==
    /\ OnLoop(u, "start") /\ Handler(u) = "text"
    /\ LET plan == handle_text_plan(msg[u].text, railway)
       IN  CASE plan.class = "slash" ->
                  /\ pc' = [pc EXCEPT ![u] = "done"]
                  /\ UNCHANGED <<out, loc>>
             [] plan.class = "img_noq" ->
                  /\ Send(u, TextReply(plan.body), "reply_wait")
                  /\ loc' = loc
             [] OTHER ->
                  /\ Send(u, Notice(plan.notice), "notice_wait")
                  /\ loc' = [loc EXCEPT ![u].prompt = plan.prompt]
    /\ UNCHANGED <<now, files, notesFile, nUpd, msg, stat, wrote, loop,
                   expect, everSaved, ioFault, shows, otherVars>>

\* call_openrouter_ai: the notice is through, the call goes to the executor
AiSubmit(u) ==
    /\ OnLoop(u, "notice_wait")
    /\ pc' = [pc EXCEPT ![u] = "ai_call"]
    /\ UNCHANGED <<now, files, notesFile, nUpd, msg, out, stat, wrote, loc, loop,
                   expect, everSaved, ioFault, shows, otherVars>>

\* call_openrouter_ai_sync on an executor thread
AiWorker(u) ==
    /\ pc[u] = "ai_call"
    /\ \E ok \in BOOLEAN :
         loc' = [loc EXCEPT ![u].res = call_openrouter_ai_sync(loc[u].prompt, ok)]
    /\ Called(u)
    /\ pc' = [pc EXCEPT ![u] = "ai_ret"]
    /\ UNCHANGED <<now, files, notesFile, nUpd, msg, out, wrote, loop,
                   expect, everSaved, ioFault, shows, otherVars>>

AiReply(u) ==
    /\ OnLoop(u, "ai_ret")
    /\ Send(u, TextReply(loc[u].res), "reply_wait")
    /\ UNCHANGED <<now, files, notesFile, nUpd, msg, stat, wrote, loc, loop,
                   expect, everSaved, ioFault, shows, otherVars>>

\* ------------------------------------------------------ /wiki and /weather
\* wikipedia.summary is called in the handler itself: the event loop's
\* thread is inside the call until it returns.
cmd_wiki(u) ==
    /\ OnLoop(u, "start") /\ Handler(u) = "wiki"
    /\ IF MissingArg(Args(u))
       THEN /\ Send(u, TextReply(Usage("wiki")), "reply_wait")
            /\ UNCHANGED <<stat, loop>>
       ELSE /\ pc' = [pc EXCEPT ![u] = "wiki_call"]
            /\ loop' = u
            /\ Called(u)
            /\ out' = out
    /\ UNCHANGED <<now, files, notesFile, nUpd, msg, wrote, loc,
                   expect, everSaved, ioFault, shows, otherVars>>

WikiReturn(u) ==
    /\ pc[u] = "wiki_call" /\ loop = u
    /\ \E ok \in BOOLEAN :
         Send(u, TextReply(IF ok THEN <<"summary:">> \o Args(u)
                           ELSE <<"Couldn't find on Wikipedia.">>), "reply_wait")
    /\ loop' = 0
    /\ UNCHANGED <<now, files, notesFile, nUpd, msg, stat, wrote, loc,
                   expect, everSaved, ioFault, shows, otherVars>>

WeatherOutcomes == {"ok", "notfound", "exception"}

\* The replies of cmd_weather after requests.get, in order
WeatherRepliesNoReturn(outcome, city) ==
    CASE outcome = "ok"       -> <<<<"Weather in ">> \o city>>
      [] outcome = "notfound" -> <<<<"City not found.">>, <<"Weather fetch error.">>>>
      [] OTHER                -> <<<<"Weather fetch error.">>>>
WeatherReplies(outcome, city) ==
    CASE outcome = "ok"       -> <<<<"Weather in ">> \o city>>
      [] outcome = "notfound" -> <<<<"City not found.">>>>
      [] OTHER                -> <<<<"Weather fetch error.">>>>

cmd_weather(u) ==
    /\ OnLoop(u, "start") /\ Handler(u) = "weather"
    /\ IF MissingArg(Args(u))
       THEN /\ Send(u, TextReply(Usage("weather")), "reply_wait")
            /\ UNCHANGED <<stat, loop>>
       ELSE IF ~weatherKey
       THEN /\ Send(u, TextReply(<<"Weather API key not configured.">>), "reply_wait")
            /\ UNCHANGED <<stat, loop>>
       ELSE /\ pc' = [pc EXCEPT ![u] = "weather_call"]
            /\ loop' = u
            /\ Called(u)
            /\ out' = out
    /\ UNCHANGED <<now, files, notesFile, nUpd, msg, wrote, loc,
                   expect, everSaved, ioFault, shows, otherVars>>

WeatherReturn(u) ==
    /\ pc[u] = "weather_call" /\ loop = u
    /\ \E o \in WeatherOutcomes :
         LET rs == WeatherReplies(o, Args(u))
         IN  out' = [out EXCEPT ![u] = @ \o [i \in 1..Len(rs) |-> TextReply(rs[i])]]
    /\ pc' = [pc EXCEPT ![u] = "reply_wait"]
    /\ loop' = 0
    /\ UNCHANGED <<now, files, notesFile, nUpd, msg, stat, wrote, loc,
                   expect, everSaved, ioFault, shows, otherVars>>

\* -------------------------------------------------------- /image and /meme
cmd_image(u) ==
    /\ OnLoop(u, "start") /\ Handler(u) = "image"
    /\ IF MissingArg(Args(u))
       THEN /\ Send(u, TextReply(Usage("image")), "reply_wait")
            /\ stat' = stat
       ELSE /\ Send(u, MediaReply("photo", generate_image_url(Args(u))), "reply_wait")
            /\ Called(u)
    /\ UNCHANGED <<now, files, notesFile, nUpd, msg, wrote, loc, loop,
                   expect, everSaved, ioFault, shows, otherVars>>

cmd_meme(u) ==
    /\ OnLoop(u, "start") /\ Handler(u) = "meme"
    /\ IF MissingArg(Args(u))
       THEN /\ Send(u, TextReply(Usage("meme")), "reply_wait")
            /\ stat' = stat
       ELSE /\ Send(u, MediaReply("photo", generate_meme_url(Args(u))), "reply_wait")
            /\ Called(u)
    /\ UNCHANGED <<now, files, notesFile, nUpd, msg, wrote, loc, loop,
                   expect, everSaved, ioFault, shows, otherVars>>

\* --------------------------------------------------------- /speak and /pdf
\* The path text_to_speech_file and make_pdf_from_text write, at time t
GenPath(h, t) == IF h = "speak" THEN <<"data/uploads", t, "_tts.mp3">>
                 ELSE <<"data", t, "_doc.pdf">>

\* What they write there for `text`
GenContent(h, text) == (IF h = "speak" THEN <<"mp3:">> ELSE <<"pdf:">>) \o text

GenFailed(h) == IF h = "speak" THEN <<"TTS failed.">> ELSE <<"PDF creation failed.">>
GenKind(h)   == IF h = "speak" THEN "audio" ELSE "document"

cmd_speak(u) ==
    /\ OnLoop(u, "start") /\ Handler(u) = "speak"
    /\ IF MissingArg(Args(u))
       THEN Send(u, TextReply(Usage("speak")), "reply_wait")
       ELSE pc' = [pc EXCEPT ![u] = "gen_run"] /\ out' = out
    /\ UNCHANGED <<now, files, notesFile, nUpd, msg, stat, wrote, loc, loop,
                   expect, everSaved, ioFault, shows, otherVars>>

cmd_pdf(u) ==
    /\ OnLoop(u, "start") /\ Handler(u) = "pdf"
    /\ IF MissingArg(Args(u))
       THEN Send(u, TextReply(Usage("pdf")), "reply_wait")
       ELSE pc' = [pc EXCEPT ![u] = "gen_run"] /\ out' = out
    /\ UNCHANGED <<now, files, notesFile, nUpd, msg, stat, wrote, loc, loop,
                   expect, everSaved, ioFault, shows, otherVars>>

\* On an executor thread: the file name is taken from the clock
GenName(u) ==
    /\ pc[u] = "gen_run"
    /\ loc' = [loc EXCEPT ![u].path = GenPath(Handler(u), now)]
    /\ Called(u)
    /\ pc' = [pc EXCEPT ![u] = "gen_save"]
    /\ UNCHANGED <<now, files, notesFile, nUpd, msg, out, wrote, loop,
                   expect, everSaved, ioFault, shows, otherVars>>

\* On an executor thread: tts.save / pdf.output writes the file and the
\* path is returned, or the failure is caught and None is returned (the
\* file untouched, or left partly written).
GenSave(u) ==
    /\ pc[u] = "gen_save"
    /\ \E o \in {"ok", "fail", "fail_partial"} :
         CASE o = "ok" ->
                /\ files' = WriteFile(loc[u].path, GenContent(Handler(u), Args(u)))
                /\ wrote' = [wrote EXCEPT ![u] = @ \cup {loc[u].path}]
                /\ loc' = loc
           [] o = "fail" ->
                /\ loc' = [loc EXCEPT ![u].path = <<>>]
                /\ UNCHANGED <<files, wrote>>
           [] OTHER ->
                /\ files' = WriteFile(loc[u].path, <<"partial">>)
                /\ wrote' = [wrote EXCEPT ![u] = @ \cup {loc[u].path}]
                /\ loc' = [loc EXCEPT ![u].path = <<>>]
    /\ pc' = [pc EXCEPT ![u] = "gen_ret"]
    /\ UNCHANGED <<now, notesFile, nUpd, msg, out, stat, loop,
                   expect, everSaved, ioFault, shows, otherVars>>

\* Back on the loop: open(path, "rb") and send it, or report the failure.
\* open() of a path that is gone raises out of the handler.
GenSend(u) ==
    /\ OnLoop(u, "gen_ret")
    /\ IF loc[u].path = <<>>
       THEN Send(u, TextReply(GenFailed(Handler(u))), "reply_wait")
       ELSE IF loc[u].path \notin DOMAIN files
       THEN pc' = [pc EXCEPT ![u] = "crashed"] /\ out' = out
       ELSE Send(u, MediaReply(GenKind(Handler(u)), files[loc[u].path]), "sent_wait")
    /\ UNCHANGED <<now, files, notesFile, nUpd, msg, stat, wrote, loc, loop,
                   expect, everSaved, ioFault, shows, otherVars>>

\* The send is through: os.remove(path), any error ignored
GenRemove(u) ==
    /\ OnLoop(u, "sent_wait")
    /\ files' = RemoveFile(loc[u].path)
    /\ pc' = [pc EXCEPT ![u] = "done"]
    /\ UNCHANGED <<now, notesFile, nUpd, msg, out, stat, wrote, loc, loop,
                   expect, everSaved, ioFault, shows, otherVars>>

\* ------------------------------------------------------------------ /notes
\* load_notes(): the map in the file, or {} when reading or parsing fails
load_notes_empty(file, readOk) == EmptyNotes
load_notes(file, readOk) == IF readOk /\ file.ok THEN file.data ELSE EmptyNotes

SaveOutcomes == {"ok", "fail_open", "fail_write"}

\* save_notes(d): the file after write_text, which truncates and then
\* writes; a failure leaves the old file or a truncated one.
save_notes(file, d, o) ==
    CASE o = "ok"        -> [ok |-> TRUE, data |-> d]
      [] o = "fail_open" -> file
      [] OTHER           -> [ok |-> FALSE, data |-> EmptyNotes]

\* notes.setdefault(user, []).append(text)
notes_append_keep_own(notes, user, text) ==
    [w \in Users |-> IF w = user THEN Append(notes[w], text) ELSE <<>>]
notes_append(notes, user, text) == [notes EXCEPT ![user] = Append(@, text)]

\* notes[user] = []
notes_clear(notes, user) == [notes EXCEPT ![user] = <<>>]

cmd_notes(u) ==
    /\ OnLoop(u, "start") /\ Handler(u) = "notes"
    /\ \E readOk \in BOOLEAN, o \in SaveOutcomes :
         LET arg   == Args(u)
             user  == msg[u].user
             notes == load_notes(notesFile, readOk)
             fault == ~(readOk /\ notesFile.ok)
         IN  IF StartsWith(arg, W_save)
             THEN LET text == Drop(arg, 5)
                  IN  /\ notesFile' = save_notes(notesFile, notes_append(notes, user, text), o)
                      /\ stat' = [stat EXCEPT ![u].reads = @ + 1, ![u].writes = @ + 1]
                      /\ everSaved' = [everSaved EXCEPT ![user] = @ \cup {text}]
                      /\ ioFault' = (ioFault \/ fault \/ o # "ok")
                      /\ shows' = shows
                      /\ IF o = "ok"
                         THEN /\ Send(u, TextReply(<<"Note saved.">>), "reply_wait")
                              /\ expect' = [expect EXCEPT ![user] = Append(@, text)]
                         ELSE /\ pc' = [pc EXCEPT ![u] = "crashed"]
                              /\ UNCHANGED <<out, expect>>
             ELSE IF StartsWith(arg, W_show)
             THEN /\ o = "ok"
                  /\ Send(u, IF notes[user] = <<>>
                             THEN TextReply(<<"No notes saved.">>)
                             ELSE [TextReply(<<"Your notes:">>) EXCEPT
                                     !.items = notes[user]], "reply_wait")
                  /\ stat' = [stat EXCEPT ![u].reads = @ + 1]
                  /\ ioFault' = (ioFault \/ fault)
                  /\ shows' = [shows EXCEPT ![u] = expect[user]]
                  /\ UNCHANGED <<notesFile, expect, everSaved>>
             ELSE IF StartsWith(arg, W_clear)
             THEN /\ notesFile' = save_notes(notesFile, notes_clear(notes, user), o)
                  /\ stat' = [stat EXCEPT ![u].reads = @ + 1, ![u].writes = @ + 1]
                  /\ expect' = [expect EXCEPT ![user] = <<>>]
                  /\ ioFault' = (ioFault \/ fault \/ o # "ok")
                  /\ UNCHANGED <<everSaved, shows>>
                  /\ IF o = "ok"
                     THEN Send(u, TextReply(<<"Notes cleared.">>), "reply_wait")
                     ELSE pc' = [pc EXCEPT ![u] = "crashed"] /\ out' = out
             ELSE /\ o = "ok"
                  /\ Send(u, TextReply(Usage("notes")), "reply_wait")
                  /\ stat' = [stat EXCEPT ![u].reads = @ + 1]
                  /\ ioFault' = (ioFault \/ fault)
                  /\ UNCHANGED <<notesFile, expect, everSaved, shows>>
    /\ UNCHANGED <<now, files, nUpd, msg, wrote, loc, loop, otherVars>>

\* ------------------------------------------------------------------ photos
\* handle_photo up to the awaited download of the largest photo
handle_photo(u) ==
    /\ OnLoop(u, "start") /\ Handler(u) = "photo"
    /\ pc' = [pc EXCEPT ![u] = "photo_dl"]
    /\ UNCHANGED <<now, files, notesFile, nUpd, msg, out, stat, wrote, loc, loop,
                   expect, everSaved, ioFault, shows, otherVars>>

PhotoPath(t) == <<"data/uploads", t, "_tg.jpg">>

\* str(int(time.time()))
TimeStr(t) == <<"0", "1", "2", "3", "4", "5", "6", "7", "8", "9">>[t + 1]

\* The download is back (or has failed); the file is written and the
\* instructions are sent, any failure being caught and reported.
PhotoSave(u) ==
    /\ OnLoop(u, "photo_dl")
    /\ \E o \in {"ok", "download_failed", "write_failed"} :
         CASE o = "ok" ->
                /\ files' = WriteFile(PhotoPath(now), <<"jpg:", u>>)
                /\ wrote' = [wrote EXCEPT ![u] = @ \cup {PhotoPath(now)}]
                /\ Send(u, TextReply(<<"Image received and saved. To ask about this image, type: img:",
                                       TimeStr(now), "_tg.jpg", " <your question>">>), "reply_wait")
           [] o = "download_failed" ->
                /\ Send(u, TextReply(<<"Failed to save image.">>), "reply_wait")
                /\ UNCHANGED <<files, wrote>>
           [] OTHER ->
                /\ files' = WriteFile(PhotoPath(now), <<"partial">>)
                /\ wrote' = [wrote EXCEPT ![u] = @ \cup {PhotoPath(now)}]
                /\ Send(u, TextReply(<<"Failed to save image.">>), "reply_wait")
    /\ UNCHANGED <<now, notesFile, nUpd, msg, stat, loc, loop,
                   expect, everSaved, ioFault, shows, otherVars>>

\* ------------------------------------------------------ the web front end
UploadNames    == {"a.jpg", "b.jpg"}
UploadContents == {<<"x">>, <<"y">>}

NoRequest == [pc |-> "idle", filename |-> "", content |-> <<>>, path |-> <<>>,
              url |-> <<>>, got |-> <<>>]

HostUrl == <<"H", "/">>

\* f"{int(time.time())}_{f.filename}" under UPLOADS_DIR
UploadPath(t, filename) == <<"data/uploads", t, filename>>

\* The name as text, for the public URL
UploadNameText(t, filename) == <<TimeStr(t), "_", filename>>

webOther == <<cfgVars, chatVars, notesFile, nUpd, msg, pc, out, stat, wrote, loc, loop,
              expect, everSaved, ioFault, shows>>

\* upload_file up to f.save: no file part, or the name is taken from the clock
upload_file(r) ==
    /\ req[r].pc = "idle"
    /\ \/ req' = [req EXCEPT ![r].pc = "no_file"]
       \/ \E fn \in UploadNames, c \in UploadContents :
            req' = [req EXCEPT ![r] = [@ EXCEPT !.pc = "saving", !.filename = fn,
                                         !.content = c, !.path = UploadPath(now, fn)]]
    /\ UNCHANGED <<now, files, webOther>>

\* f.save(path) and the JSON answer; a failing save raises out of the view
UploadSave(r) ==
    /\ req[r].pc = "saving"
    /\ \E o \in {"ok", "fail", "fail_partial"} :
         CASE o = "ok" ->
                /\ files' = WriteFile(req[r].path, req[r].content)
                /\ req' = [req EXCEPT ![r].pc = "done",
                             ![r].url = make_public_file_url(
                                 UploadNameText(req[r].path[2], req[r].filename),
                                 RStripSlash(HostUrl), railway)]
           [] o = "fail" ->
                /\ files' = files
                /\ req' = [req EXCEPT ![r].pc = "crashed"]
           [] OTHER ->
                /\ files' = WriteFile(req[r].path, <<"partial">>)
                /\ req' = [req EXCEPT ![r].pc = "crashed"]
    /\ UNCHANGED <<now, webOther>>

\* GET /files/<filename> with the filename the upload r returned
serve_file(r) ==
    /\ req[r].pc = "done"
    /\ req' = [req EXCEPT ![r].got = IF req[r].path \in DOMAIN files
                                     THEN <<"200">> \o files[req[r].path]
                                     ELSE <<"404">>]
    /\ UNCHANGED <<now, files, webOther>>

NextWeb ==
    \/ Tick
    \/ \E r \in Reqs :
         \/ upload_file(r)
         \/ UploadSave(r)
         \/ serve_file(r)

\* ------------------------------------------- the same text, both front ends
ChatAlphabet == {"/", "a", "i", SP}

ChatTexts == {p \o t : p \in {<<>>, W_img},
                       t \in UNION {[1..n -> ChatAlphabet] : n \in 0..MaxLen}}

Outcome(plan) == [plan |-> plan, ok |-> plan_reply(plan, TRUE),
                  failed |-> plan_reply(plan, FALSE)]

chatOther == <<cfgVars, botVars, webVars>>

\* The chat platform delivers chatText to the router
TgReceive ==
    /\ tgOut = <<>>
    /\ tgOut' = <<Outcome(router_plan(chatText, railway))>>
    /\ UNCHANGED <<chatText, webOut, chatOther>>

\* POST /webchat with {"text": chatText}
webchat ==
    /\ webOut = <<>>
    /\ webOut' = <<Outcome(webchat_plan(chatText, railway, HostUrl))>>
    /\ UNCHANGED <<chatText, tgOut, chatOther>>

NextChat == TgReceive \/ webchat

\* --------------------------------------------------- the chat-platform bot
InitCfg == railway \in Bases /\ weatherKey \in BOOLEAN

\* The settings a run is started with, where they make no difference
InitCfgFixed == railway = <<>> /\ weatherKey = TRUE

InitBot ==
    /\ now = 0
    /\ files = <<>>
    /\ notesFile = [ok |-> TRUE, data |-> EmptyNotes]
    /\ nUpd = 0
    /\ msg = [u \in Upds |-> NoMessage]
    /\ pc = [u \in Upds |-> "idle"]
    /\ out = [u \in Upds |-> <<>>]
    /\ stat = [u \in Upds |-> NoStat]
    /\ wrote = [u \in Upds |-> {}]
    /\ loc = [u \in Upds |-> NoLocals]
    /\ loop = 0
    /\ expect = EmptyNotes
    /\ everSaved = [w \in Users |-> {}]
    /\ ioFault = FALSE
    /\ shows = [u \in Upds |-> <<>>]

InitWeb == req = [r \in Reqs |-> NoRequest]

InitChat == chatText = <<>> /\ tgOut = <<>> /\ webOut = <<>>

Init == InitCfg /\ InitBot /\ InitWeb /\ InitChat

Next ==
    \/ \E m \in BotMessages : Dispatch(m, MaxUpd)
    \/ Tick
    \/ \E u \in Upds :
         \/ Finish(u)
         \/ cmd_start(u)
         \/ cmd_joke(u)
         \/ cmd_ai(u)
         \/ handle_text(u)
         \/ AiSubmit(u)
         \/ AiWorker(u)
         \/ AiReply(u)
         \/ cmd_wiki(u)
         \/ WikiReturn(u)
         \/ cmd_weather(u)
         \/ WeatherReturn(u)
         \/ cmd_image(u)
         \/ cmd_meme(u)
         \/ cmd_speak(u)
         \/ cmd_pdf(u)
         \/ GenName(u)
         \/ GenSave(u)
         \/ GenSend(u)
         \/ GenRemove(u)
         \/ cmd_notes(u)
         \/ handle_photo(u)
         \/ PhotoSave(u)

Spec == Init /\ [][Next]_vars

\* ------------------------------------------- handlers with external calls
WorkerMessages ==
    {m \in BotMessages :
       /\ Route(m.content, m.text) \in {"ai", "wiki", "weather", "speak", "pdf"}
       /\ get_args(m.text) # <<>>}

NextWorkers ==
    \/ \E m \in WorkerMessages : Dispatch(m, MaxJobs)
    \/ Tick
    \/ \E u \in Upds :
         \/ Finish(u)
         \/ cmd_ai(u)
         \/ AiSubmit(u)
         \/ AiWorker(u)
         \/ AiReply(u)
         \/ cmd_wiki(u)
         \/ WikiReturn(u)
         \/ cmd_weather(u)
         \/ WeatherReturn(u)
         \/ cmd_speak(u)
         \/ cmd_pdf(u)
         \/ GenName(u)
         \/ GenSave(u)
         \/ GenSend(u)
         \/ GenRemove(u)

InitWorkers == railway = <<>> /\ weatherKey \in BOOLEAN /\ InitBot /\ InitWeb /\ InitChat

SpecWorkers == InitWorkers /\ [][NextWorkers]_vars

\* ------------------------------------------------------- /notes updates only
NoteMessages == {m \in BotMessages : Route(m.content, m.text) = "notes"}

NextNotes ==
    \/ \E m \in NoteMessages : Dispatch(m, MaxNoteUpd)
    \/ \E u \in Upds :
         \/ cmd_notes(u)
         \/ Finish(u)

InitNotes == InitCfgFixed /\ InitBot /\ InitWeb /\ InitChat

SpecNotes == InitNotes /\ [][NextNotes]_vars

\* The event loop runs every handler that is ready.
SpecNotesFair == SpecNotes /\ WF_vars(NextNotes)

InitUploads == InitCfg /\ InitBot /\ InitWeb /\ InitChat

SpecWeb == InitUploads /\ [][NextWeb]_vars

InitTexts ==
    /\ InitCfg /\ InitBot /\ InitWeb
    /\ chatText \in ChatTexts
    /\ tgOut = <<>>
    /\ webOut = <<>>

SpecChat == InitTexts /\ [][NextChat]_vars

\* ================================================================== claims
Finals(u)  == Cardinality({i \in 1..Len(out[u]) : out[u][i].final})
Notices(u) == Cardinality({i \in 1..Len(out[u]) : ~out[u][i].final})
Handled(u) == pc[u] \notin {"idle", "start"}
StoreOps(u) == IF stat[u].reads + stat[u].writes > 0 THEN 1 ELSE 0

\* C1 as stated: every handler sends at most one outbound action (one text
\* reply, one media reply or nothing) and makes at most one capability
\* call or note-store operation.
C1_OneOutboundAction ==
    \A u \in Upds : Len(out[u]) <= 1 /\ stat[u].calls + StoreOps(u) <= 1

\* C1 amended: every handler sends at most one final outbound action,
\* preceded only in the chat-completion branches (/ai with an argument,
\* img: with a question, plain text) by one interim notice sent before the
\* call, and makes at most one capability call or one note-store
\* operation (one read of the note file, at most one rewrite).
C1_OneFinalAction ==
    \A u \in Upds :
      /\ Finals(u) <= 1
      /\ Notices(u) <= 1
      /\ Notices(u) = 1 => /\ Handler(u) \in {"ai", "text"}
                           /\ ~out[u][1].final
      /\ stat[u].calls + StoreOps(u) <= 1
      /\ stat[u].reads <= 1 /\ stat[u].writes <= 1

C1_Witness ==
    \E u \in Upds : /\ Handler(u) = "ai"
                    /\ pc[u] = "reply_wait"
                    /\ Notices(u) = 1 /\ Finals(u) = 1
                    /\ stat[u].calls = 1

\* C2: an argument-taking command with an empty argument is answered with
\* its usage string alone; no capability call is made, no file is written
\* and the note file is not rewritten.
C2_UsageOnly ==
    \A u \in Upds :
      (Handled(u) /\ Handler(u) \in ArgCommands \cup {"notes"} /\ Args(u) = <<>>)
        => /\ out[u] = <<TextReply(Usage(Handler(u)))>>
           /\ stat[u].calls = 0
           /\ stat[u].writes = 0
           /\ wrote[u] = {}
           /\ pc[u] \in {"reply_wait", "done"}

C2_Witness ==
    /\ \E u \in Upds : Handled(u) /\ Handler(u) = "speak" /\ Args(u) = <<>>

\* C3 as stated: /notes show by U lists every text U has saved with success
\* since U's last clear, and lists no text that U never saved.
IsShow(u) == Handler(u) = "notes" /\ StartsWith(Args(u), W_show) /\ out[u] # <<>>

C3_SaveThenShow ==
    \A u \in Upds :
      IsShow(u) => /\ Range(shows[u]) \subseteq Range(out[u][1].items)
                   /\ Range(out[u][1].items) \subseteq everSaved[msg[u].user]

\* C4 as stated: no failure escapes a handler.
C4_NothingEscapes == \A u \in Upds : pc[u] # "crashed"

\* C5 as stated: GET /files/<filename> with the filename an upload
\* returned yields the content that upload sent.
C5_RoundTrip ==
    \A r \in Reqs : req[r].got # <<>> => req[r].got = <<"200">> \o req[r].content

\* C6 as stated: both front ends classify every text the same way, pick
\* the same capability with the same prompt and give the same reply.
BothAnswered == tgOut # <<>> /\ webOut # <<>>

C6_SameRouter ==
    BothAnswered =>
      /\ tgOut[1].plan.class = webOut[1].plan.class
      /\ tgOut[1].plan.capability = webOut[1].plan.capability
      /\ tgOut[1].plan.prompt = webOut[1].plan.prompt
      /\ tgOut[1].ok = webOut[1].ok
      /\ tgOut[1].failed = webOut[1].failed

\* C6 amended: for every non-empty text that does not start with "/",
\* POST /webchat takes the same branch as handle_text (img: without a
\* question, img: with a question, plain text) and calls chat completion in
\* the same cases; for plain text the prompt and the reply are the same.
C6_SameBranch ==
    (BothAnswered /\ Strip(chatText) # <<>> /\ ~StartsWith(Strip(chatText), <<"/">>))
      => /\ tgOut[1].plan.class = webOut[1].plan.class
         /\ tgOut[1].plan.capability = webOut[1].plan.capability
         /\ tgOut[1].plan.class = "plain"
              => /\ tgOut[1].plan.prompt = webOut[1].plan.prompt
                 /\ tgOut[1].plan.prompt = Strip(chatText)
                 /\ tgOut[1].ok = webOut[1].ok
                 /\ tgOut[1].failed = webOut[1].failed

C6_Witness ==
    /\ BothAnswered
    /\ tgOut[1].plan.class = "img_q" /\ webOut[1].plan.class = "img_q"
    /\ tgOut[1].plan.prompt # webOut[1].plan.prompt

\* C7 as stated: a pending external call of a handler is never run on the
\* event loop's own thread.
CallPending(u) == pc[u] \in {"ai_call", "wiki_call", "weather_call", "gen_run", "gen_save"}

C7_CallsOffLoop == \A u \in Upds : CallPending(u) => loop # u

\* C8 as stated (a possibility, read as what two concurrent mutations by
\* different users lead to unless a read or write of the file fails): both
\* handlers have read the file, both have answered success, and the file
\* lacks one of the two changes.
IsMutation(u) ==
    /\ Handler(u) = "notes"
    /\ StartsWith(Args(u), W_save) \/ StartsWith(Args(u), W_clear)

Succeeded(u) == pc[u] \in {"reply_wait", "done"}

TwoConcurrentMutations ==
    \E u, v \in Upds : /\ msg[u].user # msg[v].user
                       /\ IsMutation(u) /\ IsMutation(v)
                       /\ pc[u] = "start" /\ pc[v] = "start"

RaceLost ==
    \E u, v \in Upds : /\ msg[u].user # msg[v].user
                       /\ IsMutation(u) /\ IsMutation(v)
                       /\ Succeeded(u) /\ Succeeded(v)
                       /\ ~ioFault
                       /\ notesFile.data # expect

Stored(f) == IF f.ok THEN f.data ELSE EmptyNotes

C9_NotesFrame ==
    [][\A u \in Upds :
         (pc[u] = "start" /\ pc'[u] # "start" /\ Handler(u) = "notes") =>
           LET arg  == Args(u)
               user == msg[u].user
               old  == Stored(notesFile)
               new  == Stored(notesFile')
           IN  /\ (StartsWith(arg, W_save) /\ pc'[u] = "reply_wait") =>
                    \A w \in Users :
                      new[w] = IF w = user THEN Append(old[w], Drop(arg, 5)) ELSE old[w]
               /\ (~StartsWith(arg, W_save) /\ StartsWith(arg, W_show)) =>
                    notesFile' = notesFile
               /\ \A w \in Users :
                    ~IsPrefix(old[w], new[w]) =>
                      (w = user /\ ~StartsWith(arg, W_save) /\ ~StartsWith(arg, W_show)
                         /\ StartsWith(arg, W_clear))
      ]_vars

\* C10 as stated: from the moment a /speak or /pdf handler's file is
\* written until the handler opens it, the file at its path is the one
\* made from the handler's own text, and that is what the handler sends.
C10_OwnFile ==
    \A u \in Upds :
      /\ (pc[u] = "gen_ret" /\ loc[u].path # <<>>)
           => /\ loc[u].path \in DOMAIN files
              /\ files[loc[u].path] = GenContent(Handler(u), Args(u))
      /\ \A i \in 1..Len(out[u]) :
           out[u][i].kind \in {"audio", "document"}
             => out[u][i].body = GenContent(Handler(u), Args(u))

====
